---- MODULE Spec2Model ----
(***************************************************************************)
(* Cloud Quest dungeon generator (backend/main.py).                        *)
(*                                                                         *)
(* The model follows the request handler of POST /generate-dungeon:        *)
(* module start-up sets VERTEX_ENABLED, a request enters                   *)
(* generate_dungeon_with_ai, either falls back at once (flag false) or     *)
(* issues model.generate_content(prompt), and on the reply strips a code   *)
(* fence, parses JSON, coerces the fields and builds the room, falling     *)
(* back to generate_procedural_dungeon on any exception or an empty enemy  *)
(* list.                                                                   *)
(*                                                                         *)
(* Representation choices:                                                 *)
(*  - floats are fixed-point thousandths (0.5 is 500);                     *)
(*  - a text is a sequence of tokens: a backtick, a newline, a space, a    *)
(*    letter, and the pieces of a JSON document ("{", its members, "}" or  *)
(*    a non-object JSON value);                                            *)
(*  - a JSON value is a tagged record, an object a function from the keys  *)
(*    it holds to JSON values;                                             *)
(*  - random is a stream of draws determined by a seed.                    *)
(***************************************************************************)
EXTENDS Integers, Sequences, FiniteSets, TLC

(***************************************************************************)
(* Bounds of the model.                                                    *)
(***************************************************************************)
MaxLevel == 20

MaxSeed == 2

NumRequests == 2

Min(a, b) == IF a < b THEN a ELSE b

\* Body of the value of v: v is evaluated once and Body is given the value.
Let(v, Body(_)) == CHOOSE out \in {Body(x) : x \in {v}} : TRUE

(***************************************************************************)
(* JSON values as json.loads produces them.                                *)
(***************************************************************************)
JInt(n) == [t |-> "int", i |-> n]

JFloat(m) == [t |-> "float", f |-> m]

JStr(s) == [t |-> "str", s |-> s]

JNull == [t |-> "null"]

JList(l) == [t |-> "list", l |-> l]

JDict(d) == [t |-> "dict", d |-> d]

(***************************************************************************)
(* The result of an expression that may raise.                             *)
(***************************************************************************)
Ok(v) == [ok |-> TRUE, v |-> v]

Raise(e) == [ok |-> FALSE, exc |-> e]

(***************************************************************************)
(* int(x) and float(x) of Python on a JSON value.  A numeric string is     *)
(* parsed; the strings the model feeds are "7" (an integer literal),       *)
(* "1.5" (a float literal only) and words that are no number.              *)
(***************************************************************************)
IntLiteral(s) == IF s = "7" THEN Ok(7) ELSE Raise("ValueError")

FloatLiteral(s) ==
    IF s = "7" THEN Ok(7000)
    ELSE IF s = "1.5" THEN Ok(1500)
    ELSE Raise("ValueError")

Trunc(m) == IF m >= 0 THEN m \div 1000 ELSE -((-m) \div 1000)

ToInt(v) ==
    CASE v.t = "int" -> Ok(v.i)
      [] v.t = "float" -> Ok(Trunc(v.f))
      [] v.t = "str" -> IntLiteral(v.s)
      [] OTHER -> Raise("TypeError")

ToFloat(v) ==
    CASE v.t = "int" -> Ok(v.i * 1000)
      [] v.t = "float" -> Ok(v.f)
      [] v.t = "str" -> FloatLiteral(v.s)
      [] OTHER -> Raise("TypeError")

(***************************************************************************)
(* The characters of a string, for the strings the model feeds to list().  *)
(***************************************************************************)
CharsOf(s) ==
    CASE s = "" -> <<>>
      [] s = "gold" -> <<"g", "o", "l", "d">>

(***************************************************************************)
(* list(x) for the loot_drop of an enemy, then the List[str] validation    *)
(* of the Enemy model.  list of a string is the list of its characters;    *)
(* None and numbers are not iterable.  (An object, of which list() gives   *)
(* the keys, is not among the values fed.)                                 *)
(***************************************************************************)
ToStrList(v) ==
    CASE v.t = "list" ->
           IF \A k \in 1..Len(v.l) : v.l[k].t = "str"
           THEN Ok([k \in 1..Len(v.l) |-> v.l[k].s])
           ELSE Raise("ValidationError")
      [] v.t = "str" -> Ok(CharsOf(v.s))
      [] v.t \in {"null", "int", "float"} -> Raise("TypeError")

(***************************************************************************)
(* A str field of a pydantic model given a JSON value: a string is kept,   *)
(* None is rejected.  (Numbers, which pydantic 1 turns into strings and    *)
(* pydantic 2 rejects, are not among the values fed to a str field.)       *)
(***************************************************************************)
ToStr(v) ==
    CASE v.t = "str" -> Ok(v.s)
      [] v.t = "null" -> Raise("ValidationError")

(***************************************************************************)
(* d.get(key, default) on a JSON object.                                   *)
(***************************************************************************)
Get(d, key, default) == IF key \in DOMAIN d THEN d[key] ELSE default


(***************************************************************************)
(* Texts: the tokens and the str methods the handler uses.                 *)
(***************************************************************************)
BT == [c |-> "bt"]

NL == [c |-> "nl"]

SP == [c |-> "sp"]

CH(x) == [c |-> "ch", ch |-> x]

LB == [c |-> "lb"]

RB == [c |-> "rb"]

MEMBERS(d) == [c |-> "members", d |-> d]

VALUE(v) == [c |-> "value", v |-> v]

IsSpace(tok) == tok.c \in {"nl", "sp"}

\* The positions of text whose token is not of a class in cs.
Kept(text, cs) == {k \in 1..Len(text) : text[k].c \notin cs}

\* str.strip(chars): drop the tokens of the classes cs from both ends.
StripOf(text, cs) ==
    Let(<<text, Kept(text, cs)>>, LAMBDA tk :
        IF tk[2] = {} THEN <<>>
        ELSE SubSeq(tk[1],
                    CHOOSE k \in tk[2] : \A j \in tk[2] : k <= j,
                    CHOOSE k \in tk[2] : \A j \in tk[2] : j <= k))

\* text.strip()
Strip(text) == StripOf(text, {"nl", "sp"})

\* text.strip("`")
StripBackticks(text) == StripOf(text, {"bt"})

\* text.startswith("```")
StartsWithFence(text) ==
    Len(text) >= 3 /\ \A k \in 1..3 : text[k].c = "bt"

\* "\n" in text
HasNewline(text) == \E k \in 1..Len(text) : text[k].c = "nl"

\* text.split("\n", 1)[1]
AfterFirstNewline(text) ==
    Let(text, LAMBDA t :
        SubSeq(t,
               1 + (CHOOSE k \in 1..Len(t) :
                        /\ t[k].c = "nl"
                        /\ \A j \in 1..(k - 1) : t[j].c # "nl"),
               Len(t)))

UnfenceKeepFirstLine(text) ==
    Let(text, LAMBDA t : IF StartsWithFence(t) THEN StripBackticks(t) ELSE t)

\* Lines 154-157: the fence stripping.
Unfence(text) ==
    Let(text, LAMBDA t :
        IF StartsWithFence(t)
        THEN Let(StripBackticks(t), LAMBDA inner :
                 IF HasNewline(inner) THEN AfterFirstNewline(inner) ELSE inner)
        ELSE t)

\* json.loads(text): white space between the tokens of a document is
\* insignificant; anything but exactly one document is a decode error.
Loads(text) ==
    Let(SelectSeq(text, LAMBDA tok : ~IsSpace(tok)), LAMBDA toks :
        IF Len(toks) = 3 /\ toks[1].c = "lb" /\ toks[2].c = "members"
           /\ toks[3].c = "rb"
        THEN Ok(JDict(toks[2].d))
        ELSE IF Len(toks) = 1 /\ toks[1].c = "value"
        THEN Ok(toks[1].v)
        ELSE Raise("JSONDecodeError"))

(***************************************************************************)
(* random: a pseudo-random generator.  The k-th draw of a stream is a      *)
(* function of the stream's seed (a linear congruential sequence stands    *)
(* for the generator); Rand is a draw in 0..n-1, and randint and choice    *)
(* are built on it.                                                        *)
(***************************************************************************)
RECURSIVE Stream(_, _)
Stream(seed, k) ==
    IF k = 0 THEN (seed * 211 + 17) % 1009
    ELSE (Stream(seed, k - 1) * 37 + 11) % 1009

Rand(seed, k, n) == (Stream(seed, k) \div 7) % n

RandInt(lo, hi, seed, k) == lo + Rand(seed, k, hi - lo + 1)

Choice(seq, seed, k) == seq[Rand(seed, k, Len(seq)) + 1]

(***************************************************************************)
(* generate_procedural_dungeon (lines 62-94).  A request is                *)
(* [player_level, skill_score]; dungeon_type only reaches the prompt.      *)
(***************************************************************************)
enemy_types == <<"Goblin", "Skeleton", "Orc", "Wraith", "Dragon">>

behaviors == <<"aggressive", "defensive", "ranged", "stealth">>

layouts == <<"corridor", "arena", "maze", "treasure_room", "boss_chamber">>

adjectives == <<"dark", "ancient", "cursed">>

FallbackLoot == <<"health_potion", "gold", "weapon_shard">>

\* Line 64.
NumEnemiesUncapped(level) == 1 + level \div 3

NumEnemies(level) == Min(4, 1 + level \div 3)

\* Lines 84 and 102-103, in thousandths.
Difficulty(request) ==
    request.player_level * 100 + request.skill_score \div 2

\* Lines 68-82: the j-th enemy (from 0) takes draws 5j .. 5j+4.
ProceduralEnemy(level, seed, j) ==
    [name |-> Choice(enemy_types, seed, 5 * j) \o " Lv." \o ToString(level),
     health |-> 50 + level * 10 + RandInt(-10, 10, seed, 5 * j + 1),
     attack |-> 10 + level * 2 + RandInt(-3, 3, seed, 5 * j + 2),
     defense |-> 5 + level + RandInt(-2, 2, seed, 5 * j + 3),
     behavior |-> Choice(behaviors, seed, 5 * j + 4),
     loot_drop |-> FallbackLoot]

generate_procedural_dungeon(request, seed) ==
    LET level == request.player_level
        n == NumEnemies(level)
    IN  [layout |-> Choice(layouts, seed, 5 * n),
         enemies |-> [j \in 1..n |-> ProceduralEnemy(level, seed, j - 1)],
         loot_chests |-> RandInt(1, 3, seed, 5 * n + 1),
         difficulty_modifier |-> Difficulty(request),
         description |->
             "A mysterious " \o Choice(adjectives, seed, 5 * n + 2)
                 \o " chamber."]

(***************************************************************************)
(* The guarded block of generate_dungeon_with_ai (lines 145-187).          *)
(***************************************************************************)
\* The first failure of a sequence of results, if any.
FirstFailure(results) ==
    Let(results, LAMBDA rs :
        Let({k \in 1..Len(rs) : ~rs[k].ok}, LAMBDA bad :
            IF bad = {} THEN Ok(TRUE)
            ELSE rs[CHOOSE k \in bad : \A j \in bad : k <= j]))

\* e["key"]
Item(d, key) == IF key \in DOMAIN d THEN Ok(d[key]) ELSE Raise("KeyError")

\* int(e["key"])
IntItem(d, key) == IF key \in DOMAIN d THEN ToInt(d[key]) ELSE Raise("KeyError")

\* Lines 162-169: one Enemy from one element of the enemies array.
AIEnemy(e) ==
    IF e.t # "dict" THEN Raise("TypeError")
    ELSE LET name == Item(e.d, "name")
             health == IntItem(e.d, "health")
             attack == IntItem(e.d, "attack")
             defense == IntItem(e.d, "defense")
             behavior == ToStr(Get(e.d, "behavior", JStr("aggressive")))
             loot_drop == ToStrList(Get(e.d, "loot_drop", JList(<<>>)))
             nameStr == IF name.ok THEN ToStr(name.v) ELSE name
             first == FirstFailure(<<name, health, attack, defense, loot_drop,
                                     nameStr, behavior>>)
         IN  IF ~first.ok THEN first
             ELSE Ok([name |-> nameStr.v, health |-> health.v,
                      attack |-> attack.v, defense |-> defense.v,
                      behavior |-> behavior.v, loot_drop |-> loot_drop.v])

\* Lines 161-171: the comprehension over data.get("enemies", []).
AIEnemies(d) ==
    LET src == Get(d, "enemies", JList(<<>>))
    IN  CASE src.t = "list" ->
               LET each == [k \in 1..Len(src.l) |-> AIEnemy(src.l[k])]
                   first == FirstFailure(each)
               IN  IF ~first.ok THEN first
                   ELSE Ok([k \in 1..Len(src.l) |-> each[k].v])
          [] src.t = "str" ->
               IF src.s = "" THEN Ok(<<>>) ELSE Raise("TypeError")
          [] src.t = "dict" ->
               IF DOMAIN src.d = {} THEN Ok(<<>>) ELSE Raise("TypeError")
          [] OTHER -> Raise("TypeError")

\* The outcome of a piece of the handler: a room returned or an
\* exception raised, the number of runs of the fallback generator in it,
\* and the branch that produced it: "flag" (line 143), "empty" (line
\* 174), "ai" (line 176), or the exception caught at line 189.
Returned(room, fallbacks, via) ==
    [kind |-> "return", rooms |-> <<room>>, exc |-> "",
     fallbacks |-> fallbacks, via |-> via]

Raised(exc, fallbacks) ==
    [kind |-> "raise", rooms |-> <<>>, exc |-> exc,
     fallbacks |-> fallbacks, via |-> "raise"]

EmptyEnemiesKeepDescription(request, seed) ==
    Returned([generate_procedural_dungeon(request, seed) EXCEPT
                  !.description =
                      "A dynamically generated dungeon chamber powered by Gemini 2.5 Flash."],
             1, "empty")

EmptyEnemiesThenRaise(request, seed) == Raised("ValueError", 1)

\* Lines 173-174.
EmptyEnemies(request, seed) ==
    Returned(generate_procedural_dungeon(request, seed), 1, "empty")

DifficultyFieldComputed(request, d) == Ok(Difficulty(request))

\* Lines 180-182.
DifficultyField(request, d) ==
    ToFloat(Get(d, "difficulty_modifier", JFloat(Difficulty(request))))

\* Lines 176-187.
BuildRoom(request, d, enemies) ==
    LET layout == ToStr(Get(d, "layout", JStr("corridor")))
        loot_chests == ToInt(Get(d, "loot_chests", JInt(1)))
        difficulty == DifficultyField(request, d)
        description ==
            ToStr(Get(d, "description",
                      JStr("A dynamically generated dungeon chamber powered by Gemini 2.5 Flash.")))
        first == FirstFailure(<<loot_chests, difficulty, layout, description>>)
    IN  IF ~first.ok THEN Raised(first.exc, 0)
        ELSE Returned([layout |-> layout.v,
                       enemies |-> enemies,
                       loot_chests |-> loot_chests.v,
                       difficulty_modifier |-> difficulty.v,
                       description |-> description.v], 0, "ai")

\* Lines 152-187, given the text of the response.
TryBlock(request, text, seed) ==
    Let(Loads(Unfence(Strip(text))), LAMBDA parsed :
        IF ~parsed.ok THEN Raised(parsed.exc, 0)
        ELSE IF parsed.v.t # "dict" THEN Raised("AttributeError", 0)
        ELSE Let(AIEnemies(parsed.v.d), LAMBDA enemies :
                 IF ~enemies.ok THEN Raised(enemies.exc, 0)
                 ELSE IF Len(enemies.v) = 0
                 THEN EmptyEnemies(request, seed)
                 ELSE BuildRoom(request, parsed.v.d, enemies.v)))

\* A reply of the remote call: a text, or a failure of the call.
TextReply(text) == [kind |-> "text", text |-> text]

ErrorReply == [kind |-> "error", text |-> <<>>]

NoReply == [kind |-> "none", text |-> <<>>]

\* Lines 149-187: generate_content raises or its text is processed.
Guarded(request, reply, seed) ==
    IF reply.kind = "error" THEN Raised("RemoteError", 0)
    ELSE TryBlock(request, reply.text, seed)

\* Line 189: except Exception.  Every exception of the model is one.
Exceptions ==
    {"RemoteError", "JSONDecodeError", "AttributeError", "KeyError",
     "TypeError", "ValueError", "ValidationError"}

CaughtDecodeErrorOnly(exc) == exc = "JSONDecodeError"

Caught(exc) == exc \in Exceptions

\* Lines 145-190: the try statement after the call was issued.
AfterCall(request, reply, seed) ==
    Let(Guarded(request, reply, seed), LAMBDA g :
        IF g.kind = "raise" /\ Caught(g.exc)
        THEN Returned(generate_procedural_dungeon(request, seed),
                      g.fallbacks + 1, g.exc)
        ELSE g)

(***************************************************************************)
(* The inputs: requests, and the replies of the remote model.              *)
(***************************************************************************)
Levels == 0..MaxLevel

\* skill_score in thousandths: 0.0, 0.5 and 1.0.
Skills == {0, 500, 1000}

Requests == [player_level : Levels, skill_score : Skills]

Seeds == 0..MaxSeed

\* A key the model left out of an object.
Absent == [t |-> "absent"]

\* The JSON object with the members of f that are not Absent.
Obj(f) == JDict([k \in {x \in DOMAIN f : f[x].t # "absent"} |-> f[k]])

EnemyObj(name, health, attack, defense, behavior, loot_drop) ==
    Obj([name |-> name, health |-> health, attack |-> attack,
         defense |-> defense, behavior |-> behavior, loot_drop |-> loot_drop])

Imp ==
    EnemyObj(JStr("Imp"), JInt(60), JInt(12), JInt(6), JStr("ranged"),
             JList(<<JStr("armor"), JStr("gold")>>))

Bat == EnemyObj(JStr("Bat"), JInt(55), JInt(11), JInt(5), Absent, Absent)

Ooze ==
    EnemyObj(JStr("Ooze"), JStr("7"), JFloat(12900), JInt(-1), JStr("sleepy"),
             JList(<<>>))

Rat == EnemyObj(JStr("Rat"), JInt(1), JInt(1), JInt(1), Absent, JStr("gold"))

EnemyLists ==
    {<<Imp>>, <<Bat>>, <<Ooze>>, <<Rat>>, <<Imp, Bat>>, <<Bat, Imp>>,
     <<Imp, Bat, Ooze, Bat, Imp>>}

\* Values of "enemies" that are empty or that the comprehension rejects.
BadEnemies ==
    {Absent, JList(<<>>), JNull, JStr(""), JStr("none"), JInt(3),
     JDict(<<>>), Imp,
     JList(<<JStr("Imp")>>),
     JList(<<Imp, EnemyObj(JStr("Rat"), Absent, JInt(1), JInt(1), Absent, Absent)>>),
     JList(<<EnemyObj(Absent, JInt(1), JInt(1), JInt(1), Absent, Absent)>>),
     JList(<<EnemyObj(JStr("Rat"), JStr("many"), JInt(1), JInt(1), Absent, Absent)>>),
     JList(<<EnemyObj(JStr("Rat"), JInt(1), JStr("1.5"), JInt(1), Absent, Absent)>>),
     JList(<<EnemyObj(JStr("Rat"), JInt(1), JInt(1), JNull, Absent, Absent)>>),
     JList(<<EnemyObj(JNull, JInt(1), JInt(1), JInt(1), Absent, Absent)>>),
     JList(<<EnemyObj(JStr("Rat"), JInt(1), JInt(1), JInt(1), JNull, Absent)>>),
     JList(<<EnemyObj(JStr("Rat"), JInt(1), JInt(1), JInt(1), Absent, JNull)>>),
     JList(<<EnemyObj(JStr("Rat"), JInt(1), JInt(1), JInt(1), Absent, JInt(2))>>),
     JList(<<EnemyObj(JStr("Rat"), JInt(1), JInt(1), JInt(1), Absent,
                      JList(<<JStr("gold"), JNull>>))>>)}

RoomObj(enemies, layout, loot_chests, difficulty_modifier, description) ==
    Obj([enemies |-> enemies, layout |-> layout, loot_chests |-> loot_chests,
         difficulty_modifier |-> difficulty_modifier,
         description |-> description]).d

LayoutValues == {Absent, JStr("crypt"), JNull}

LootValues ==
    {Absent, JInt(2), JInt(0), JInt(-1), JFloat(2900), JStr("7"),
     JStr("many"), JNull}

DifficultyValues == {Absent, JFloat(1250), JInt(2), JStr("1.5"), JStr("hard")}

DescriptionValues == {Absent, JStr("A damp crypt."), JNull}

\* Objects with a good enemy list and every combination of the other
\* members, and objects with each enemy list and fixed other members.
Docs ==
    {RoomObj(JList(<<Imp>>), la, lo, di, de) :
        la \in LayoutValues, lo \in LootValues, di \in DifficultyValues,
        de \in DescriptionValues}
    \cup {RoomObj(JList(l), JStr("crypt"), JInt(2), Absent, Absent) :
            l \in EnemyLists}
    \cup {RoomObj(e, JStr("crypt"), JInt(2), JFloat(1250), JStr("A damp crypt.")) :
            e \in BadEnemies}

\* A document on one line, and pretty-printed over several.
Compact(d) == <<LB, MEMBERS(d), RB>>

Pretty(d) == <<LB, NL, SP, MEMBERS(d), NL, RB>>

Fence == <<BT, BT, BT>>

Tag == <<CH("j"), CH("s"), CH("o"), CH("n")>>

\* A fenced block: the fence, the tag, what separates it from the
\* document, the document, what follows it, the closing fence.
Fenced(tag, sep, doc, end) == Fence \o tag \o sep \o doc \o end \o Fence

Tags == {<<>>, Tag}

Separators == {<<>>, <<SP>>, <<NL>>, <<NL, NL>>}

Endings == {<<>>, <<NL>>}

\* The documents that are sent fenced.
FencedDocs ==
    LET ds == {RoomObj(JList(<<Imp, Bat>>), JStr("crypt"), JInt(2), Absent, Absent),
               RoomObj(JList(<<Ooze>>), Absent, Absent, Absent, Absent),
               RoomObj(JList(<<Bat>>), Absent, JStr("many"), Absent, Absent)}
    IN  {Compact(d) : d \in ds} \cup {Pretty(d) : d \in ds}

FencedTexts ==
    {Fenced(tag, sep, doc, end) :
        tag \in Tags, sep \in Separators, doc \in FencedDocs, end \in Endings}

\* Texts that are no JSON object: other JSON values, prose, nothing, a
\* lone fence, a document cut short.
OtherTexts ==
    {<<VALUE(JList(<<>>))>>, <<VALUE(JInt(7))>>, <<VALUE(JNull)>>,
     <<CH("S"), CH("o"), CH("r"), CH("r"), CH("y")>>, <<>>, Fence,
     <<LB, MEMBERS(RoomObj(JList(<<Imp>>), Absent, Absent, Absent, Absent))>>,
     <<SP, NL>> \o Compact(RoomObj(JList(<<Bat>>), Absent, Absent, Absent, Absent))
         \o <<NL>>}

Texts ==
    {Compact(d) : d \in Docs} \cup FencedTexts \cup OtherTexts

(***************************************************************************)
(* The state.                                                              *)
(***************************************************************************)
VARIABLES
    phase,          \* "boot" while the module is loaded, then "serving"
    VERTEX_ENABLED, \* the availability flag (lines 27-32)
    pc,             \* request -> idle, entry, waiting, replied, done
    req,            \* request -> its DungeonRequest
    reply,          \* request -> the reply of its remote call
    seedOf,         \* request -> the seed of the draws of its fallback
    room,           \* request -> <<the DungeonRoom returned>>, or <<>>
    via,            \* request -> the branch that produced its outcome
    status,         \* request -> the HTTP status of its response
    remoteCalls,    \* request -> calls of generate_content
    fallbackCalls   \* request -> runs of generate_procedural_dungeon

vars ==
    <<phase, VERTEX_ENABLED, pc, req, reply, seedOf, room, via, status,
      remoteCalls, fallbackCalls>>

Ids == DOMAIN pc

NoRequest == [player_level |-> 0, skill_score |-> 0]

InitOf(ids) ==
    /\ phase = "boot"
    /\ VERTEX_ENABLED = FALSE
    /\ pc = [r \in ids |-> "idle"]
    /\ req = [r \in ids |-> NoRequest]
    /\ reply = [r \in ids |-> NoReply]
    /\ seedOf = [r \in ids |-> -1]
    /\ room = [r \in ids |-> <<>>]
    /\ via = [r \in ids |-> ""]
    /\ status = [r \in ids |-> 0]
    /\ remoteCalls = [r \in ids |-> 0]
    /\ fallbackCalls = [r \in ids |-> 0]

\* Lines 27-32: aiplatform.init succeeds or raises.
Startup ==
    /\ phase = "boot"
    /\ \E initialised \in BOOLEAN : VERTEX_ENABLED' = initialised
    /\ phase' = "serving"
    /\ UNCHANGED <<pc, req, reply, seedOf, room, via, status, remoteCalls,
                   fallbackCalls>>

\* Lines 216-217: a validated DungeonRequest reaches the route.
Submit(r, request) ==
    /\ phase = "serving"
    /\ pc[r] = "idle"
    /\ req' = [req EXCEPT ![r] = request]
    /\ pc' = [pc EXCEPT ![r] = "entry"]
    /\ UNCHANGED <<phase, VERTEX_ENABLED, reply, seedOf, room, via, status,
                   remoteCalls, fallbackCalls>>

\* The route's response (lines 219-223): the room, or a server error.
Finish(r, out, seed) ==
    /\ pc' = [pc EXCEPT ![r] = "done"]
    /\ room' = [room EXCEPT ![r] = out.rooms]
    /\ via' = [via EXCEPT ![r] = out.via]
    /\ status' = [status EXCEPT ![r] = IF out.kind = "return" THEN 200 ELSE 500]
    /\ fallbackCalls' = [fallbackCalls EXCEPT ![r] = @ + out.fallbacks]
    /\ seedOf' = [seedOf EXCEPT ![r] = IF out.fallbacks > 0 THEN seed ELSE -1]

\* Lines 142-143.
FlagFalse(request, seed) ==
    Returned(generate_procedural_dungeon(request, seed), 1, "flag")

BeginIgnoringFlag(r, seed) ==
    /\ pc[r] = "entry"
    /\ pc' = [pc EXCEPT ![r] = "waiting"]
    /\ remoteCalls' = [remoteCalls EXCEPT ![r] = @ + 1]
    /\ UNCHANGED <<room, via, status, fallbackCalls, seedOf>>
    /\ UNCHANGED <<phase, VERTEX_ENABLED, req, reply>>

\* Lines 102-150: the handler up to the remote call, or to the return
\* of line 143.
Begin(r, seed) ==
    /\ pc[r] = "entry"
    /\ IF ~VERTEX_ENABLED
       THEN /\ Finish(r, FlagFalse(req[r], seed), seed)
            /\ UNCHANGED <<remoteCalls>>
       ELSE /\ pc' = [pc EXCEPT ![r] = "waiting"]
            /\ remoteCalls' = [remoteCalls EXCEPT ![r] = @ + 1]
            /\ UNCHANGED <<room, via, status, fallbackCalls, seedOf>>
    /\ UNCHANGED <<phase, VERTEX_ENABLED, req, reply>>

\* Line 150: the remote model answers with a text.
RemoteResponds(r, text) ==
    /\ pc[r] = "waiting"
    /\ reply' = [reply EXCEPT ![r] = TextReply(text)]
    /\ pc' = [pc EXCEPT ![r] = "replied"]
    /\ UNCHANGED <<phase, VERTEX_ENABLED, req, seedOf, room, via, status,
                   remoteCalls, fallbackCalls>>

\* Line 150: the remote call raises (network, auth, quota).
RemoteFails(r) ==
    /\ pc[r] = "waiting"
    /\ reply' = [reply EXCEPT ![r] = ErrorReply]
    /\ pc' = [pc EXCEPT ![r] = "replied"]
    /\ UNCHANGED <<phase, VERTEX_ENABLED, req, seedOf, room, via, status,
                   remoteCalls, fallbackCalls>>

ResumeDisablingFlag(r, seed) ==
    /\ pc[r] = "replied"
    /\ Finish(r, AfterCall(req[r], reply[r], seed), seed)
    /\ VERTEX_ENABLED' = (VERTEX_ENABLED /\ reply[r].kind # "error")
    /\ UNCHANGED <<phase, req, reply, remoteCalls>>

ResumeRetrying(r, seed) ==
    /\ pc[r] = "replied"
    /\ IF reply[r].kind = "error"
       THEN /\ pc' = [pc EXCEPT ![r] = "waiting"]
            /\ reply' = [reply EXCEPT ![r] = NoReply]
            /\ UNCHANGED <<room, via, status, fallbackCalls, seedOf>>
       ELSE /\ Finish(r, AfterCall(req[r], reply[r], seed), seed)
            /\ UNCHANGED <<reply>>
    /\ UNCHANGED <<phase, VERTEX_ENABLED, req, remoteCalls>>

\* Lines 150-190 and 221-223: the handler from the reply to its response.
Resume(r, seed) ==
    /\ pc[r] = "replied"
    /\ \E out \in {AfterCall(req[r], reply[r], seed)} : Finish(r, out, seed)
    /\ UNCHANGED <<phase, VERTEX_ENABLED, req, reply, remoteCalls>>

(***************************************************************************)
(* One request with the whole range of inputs.                             *)
(***************************************************************************)
Init == InitOf({1})

Next ==
    \/ Startup
    \/ \E r \in Ids, request \in Requests : Submit(r, request)
    \/ \E r \in Ids, seed \in Seeds : Begin(r, seed)
    \/ \E r \in Ids, text \in Texts : RemoteResponds(r, text)
    \/ \E r \in Ids : RemoteFails(r)
    \/ \E r \in Ids, seed \in Seeds : Resume(r, seed)

Spec == Init /\ [][Next]_vars

(***************************************************************************)
(* Properties of one request.                                              *)
(***************************************************************************)
Done(r) == pc[r] = "done"

\* The room a finished request returned.
RoomOf(r) == room[r][1]

\* The branches of the handler that end in the fallback generator.
FailureBranches == {"flag", "empty"} \cup Exceptions

\* The seed to replay the draws of request r with.
ReplaySeed(r) == IF seedOf[r] \in Seeds THEN seedOf[r] ELSE 0

\* The JSON value the handler parsed out of the reply of request r.
ParsedOf(r) == Loads(Unfence(Strip(reply[r].text)))

\* C1: every room returned has at least one enemy and loot_chests >= 0,
\* whatever the remote model did.
C1_RoomValid ==
    \A r \in Ids :
        (Done(r) /\ status[r] = 200) =>
            /\ Len(RoomOf(r).enemies) >= 1
            /\ RoomOf(r).loot_chests >= 0

\* C2: generate_dungeon_with_ai never raises to its caller: every finished
\* request ended with a room (status 200), also after a failed remote call,
\* a text that is no JSON, or a field that cannot be coerced.
C2_NeverRaises ==
    \A r \in Ids :
        Done(r) => (status[r] = 200 /\ Len(room[r]) = 1)

C2_Witness ==
    \E r \in Ids :
        /\ Done(r)
        /\ via[r] = "ValueError"
        /\ status[r] = 200

\* C3: with VERTEX_ENABLED false no request calls or waits for the remote
\* model, and every finished request holds a room of the fallback
\* generator, each enemy carrying the fixed loot_drop.
C3_FlagFalseFallback ==
    \A r \in Ids :
        (phase = "serving" /\ ~VERTEX_ENABLED) =>
            /\ remoteCalls[r] = 0
            /\ pc[r] \notin {"waiting", "replied"}
            /\ Done(r) =>
                 /\ room[r] = <<generate_procedural_dungeon(req[r], seedOf[r])>>
                 /\ \A k \in 1..Len(RoomOf(r).enemies) :
                        RoomOf(r).enemies[k].loot_drop
                            = <<"health_potion", "gold", "weapon_shard">>

C3_Witness ==
    \E r \in Ids :
        /\ Done(r)
        /\ ~VERTEX_ENABLED
        /\ Len(RoomOf(r).enemies) = 2

\* C4: on every failure branch (flag false, parse failure, coercion
\* failure, empty enemy list) the room returned is exactly a result of the
\* fallback generator for the request: no field comes from the reply.  A
\* reply whose enemies array is empty takes the empty-enemy branch.
C4_FailureIsFreshFallback ==
    \A r \in Ids :
        Done(r) =>
            /\ via[r] \in FailureBranches \cup {"ai"}
            /\ via[r] \in FailureBranches =>
                 /\ seedOf[r] \in Seeds
                 /\ room[r] = <<generate_procedural_dungeon(req[r], seedOf[r])>>
            /\ (/\ reply[r].kind = "text"
                /\ ParsedOf(r).ok
                /\ ParsedOf(r).v.t = "dict"
                /\ "enemies" \in DOMAIN ParsedOf(r).v.d
                /\ ParsedOf(r).v.d["enemies"].t = "list"
                /\ Len(ParsedOf(r).v.d["enemies"].l) = 0)
               => via[r] = "empty"

C4_Witness ==
    \E r \in Ids :
        /\ Done(r)
        /\ via[r] = "empty"
        /\ "description" \in DOMAIN ParsedOf(r).v.d
        /\ Len(RoomOf(r).enemies) >= 1

\* C5: the fallback generator returns min(4, 1 + floor(level / 3))
\* enemies, between 1 and 4.
C5_EnemyCount ==
    \A r \in Ids :
        (Done(r) /\ via[r] \in FailureBranches) =>
            LET level == req[r].player_level
                n == Len(RoomOf(r).enemies)
            IN  /\ n = (IF 1 + level \div 3 < 4 THEN 1 + level \div 3 ELSE 4)
                /\ n >= 1
                /\ n <= 4

C5_Witness ==
    \E r \in Ids :
        /\ Done(r)
        /\ via[r] = "flag"
        /\ req[r].player_level = 20
        /\ Len(RoomOf(r).enemies) = 4

\* The room of request r is the room the unwrapped document yields for the
\* same request and the same draws.
SameAsUnwrapped(r, doc) ==
    room[r] = AfterCall(req[r], TextReply(doc), ReplaySeed(r)).rooms

C7_AtMostOnce ==
    \A r \in Ids :
        /\ remoteCalls[r] <= 1
        /\ fallbackCalls[r] <= 1
        /\ Done(r) => (fallbackCalls[r] = 1 <=> via[r] \in FailureBranches)

C7_Witness ==
    \E r \in Ids :
        /\ Done(r)
        /\ via[r] = "empty"
        /\ remoteCalls[r] = 1
        /\ fallbackCalls[r] = 1

\* The reply of request r is a JSON object whose enemies array is
\* non-empty and coercible.
EnemiesUsable(r) ==
    /\ reply[r].kind = "text"
    /\ ParsedOf(r).ok
    /\ ParsedOf(r).v.t = "dict"
    /\ AIEnemies(ParsedOf(r).v.d).ok
    /\ Len(AIEnemies(ParsedOf(r).v.d).v) >= 1

\* The other members of the object d, when present, can be coerced to the
\* type of their field.
MembersUsable(d) ==
    /\ "layout" \in DOMAIN d => d["layout"].t = "str"
    /\ "description" \in DOMAIN d => d["description"].t = "str"
    /\ "loot_chests" \in DOMAIN d => ToInt(d["loot_chests"]).ok
    /\ "difficulty_modifier" \in DOMAIN d => ToFloat(d["difficulty_modifier"]).ok

\* The room rm is the room of the object d for the request: each field the
\* (coerced) member of d when d has it and the default otherwise, the
\* enemies those of d in number and order.
IsAIRoom(rm, d, request) ==
    /\ IF "layout" \in DOMAIN d
       THEN d["layout"].t = "str" /\ rm.layout = d["layout"].s
       ELSE rm.layout = "corridor"
    /\ IF "loot_chests" \in DOMAIN d
       THEN ToInt(d["loot_chests"]).ok
            /\ rm.loot_chests = ToInt(d["loot_chests"]).v
       ELSE rm.loot_chests = 1
    /\ IF "difficulty_modifier" \in DOMAIN d
       THEN ToFloat(d["difficulty_modifier"]).ok
            /\ rm.difficulty_modifier = ToFloat(d["difficulty_modifier"]).v
       ELSE rm.difficulty_modifier
                = request.player_level * 100 + request.skill_score \div 2
    /\ IF "description" \in DOMAIN d
       THEN d["description"].t = "str" /\ rm.description = d["description"].s
       ELSE rm.description
                = "A dynamically generated dungeon chamber powered by Gemini 2.5 Flash."
    /\ LET es == d["enemies"].l
       IN  /\ Len(rm.enemies) = Len(es)
           /\ \A k \in 1..Len(es) :
                /\ rm.enemies[k].name = es[k].d["name"].s
                /\ rm.enemies[k].health = ToInt(es[k].d["health"]).v
                /\ rm.enemies[k].attack = ToInt(es[k].d["attack"]).v
                /\ rm.enemies[k].defense = ToInt(es[k].d["defense"]).v
                /\ rm.enemies[k].behavior
                     = (IF "behavior" \in DOMAIN es[k].d
                        THEN es[k].d["behavior"].s ELSE "aggressive")
                /\ rm.enemies[k].loot_drop
                     = (IF "loot_drop" \in DOMAIN es[k].d
                        THEN ToStrList(es[k].d["loot_drop"]).v
                        ELSE <<>>)

\* C9 as stated: a reply that is a JSON object with a non-empty coercible
\* enemies array yields the room of that object.
C9_AIRoomWhenEnemiesUsable ==
    \A r \in Ids :
        (Done(r) /\ EnemiesUsable(r)) =>
            /\ status[r] = 200
            /\ IsAIRoom(RoomOf(r), ParsedOf(r).v.d, req[r])

\* C9 amended: the same, when moreover layout, description, loot_chests
\* and difficulty_modifier, where present, can be coerced to their type.
C9_AIRoomWhenAllUsable ==
    \A r \in Ids :
        (Done(r) /\ EnemiesUsable(r) /\ MembersUsable(ParsedOf(r).v.d)) =>
            /\ status[r] = 200
            /\ via[r] = "ai"
            /\ IsAIRoom(RoomOf(r), ParsedOf(r).v.d, req[r])

C9_Witness ==
    \E r \in Ids :
        /\ Done(r)
        /\ EnemiesUsable(r)
        /\ MembersUsable(ParsedOf(r).v.d)
        /\ DOMAIN ParsedOf(r).v.d = {"enemies"}
        /\ RoomOf(r).layout = "corridor"
        /\ RoomOf(r).loot_chests = 1
        /\ RoomOf(r).enemies[1].behavior = "aggressive"

(***************************************************************************)
(* Several requests in flight at once, each with a few inputs.  The        *)
(* handler is an async def; the model lets the requests interleave at the  *)
(* remote call in every order, the serial orders among them.               *)
(***************************************************************************)
ConcIds == 1..NumRequests

ConcRequests ==
    {[player_level |-> 0, skill_score |-> 0],
     [player_level |-> 4, skill_score |-> 1000]}

ConcTexts ==
    {Fenced(Tag, <<NL>>,
            Pretty(RoomObj(JList(<<Imp, Bat>>), JStr("crypt"), JInt(2), Absent, Absent)),
            <<NL>>)}

\* The first and the last seed.
ConcSeeds == {0, MaxSeed}

ConcInit == InitOf(ConcIds)

ConcNext ==
    \/ Startup
    \/ \E r \in ConcIds, request \in ConcRequests : Submit(r, request)
    \/ \E r \in ConcIds, seed \in ConcSeeds : Begin(r, seed)
    \/ \E r \in ConcIds, text \in ConcTexts : RemoteResponds(r, text)
    \/ \E r \in ConcIds : RemoteFails(r)
    \/ \E r \in ConcIds, seed \in ConcSeeds : Resume(r, seed)

\* The handler's own steps always run on; the remote model owes nothing.
FairSpec ==
    /\ ConcInit
    /\ [][ConcNext]_vars
    /\ WF_vars(Startup)
    /\ \A r \in ConcIds :
        /\ WF_vars(\E seed \in ConcSeeds : Begin(r, seed))
        /\ WF_vars(\E seed \in ConcSeeds : Resume(r, seed))

\* Everything the model holds of request r.
Local(r) ==
    <<pc[r], req[r], reply[r], seedOf[r], room[r], via[r], status[r],
      remoteCalls[r], fallbackCalls[r]>>

\* The rooms request r must return by its own request, reply and draws.
OwnResult(r) ==
    IF VERTEX_ENABLED
    THEN AfterCall(req[r], reply[r], ReplaySeed(r)).rooms
    ELSE <<generate_procedural_dungeon(req[r], seedOf[r])>>

\* C8: requests are independent.  The flag is not written once the process
\* serves, nor by any step of a request; a step touches the state of at
\* most one request; and a request that finishes returns the room that
\* its own request, its own reply and its own draws determine.
C8_Independent ==
    /\ [][/\ phase = "serving" => VERTEX_ENABLED' = VERTEX_ENABLED
          /\ (\E r \in ConcIds : Local(r)' # Local(r))
               => VERTEX_ENABLED' = VERTEX_ENABLED
          /\ \A r, q \in ConcIds :
               r # q => (Local(r)' = Local(r) \/ Local(q)' = Local(q))
         ]_vars
    /\ [](\A r \in ConcIds : pc[r] = "done" => room[r] = OwnResult(r))

C8_Witness ==
    \E r, q \in ConcIds :
        /\ r # q
        /\ pc[r] = "done" /\ via[r] = "ai"
        /\ pc[q] = "replied" /\ reply[q].kind = "error"
        /\ req[r] # req[q]
        /\ remoteCalls[r] = 1 /\ remoteCalls[q] = 1

\* C10: a request completes with a room once its remote call has returned
\* or failed, and at once when the flag is false; a request that waits
\* leaves the wait only by a reply (there is no timeout), so it never
\* completes while the remote call does not respond.
C10_Completion ==
    /\ \A r \in ConcIds :
        (pc[r] = "replied") ~> (pc[r] = "done" /\ status[r] = 200)
    /\ \A r \in ConcIds :
        (pc[r] = "entry" /\ ~VERTEX_ENABLED)
            ~> (pc[r] = "done" /\ status[r] = 200)
    /\ \A r \in ConcIds :
        (pc[r] = "entry" /\ VERTEX_ENABLED) ~> (pc[r] = "waiting")
    /\ [][\A r \in ConcIds :
            (pc[r] = "waiting" /\ pc'[r] # "waiting")
                => (pc'[r] = "replied" /\ reply'[r].kind \in {"text", "error"})
         ]_vars

C10_Witness ==
    \E r, q \in ConcIds :
        /\ pc[r] = "waiting"
        /\ reply[r].kind = "none"
        /\ pc[q] = "done"
        /\ remoteCalls[q] = 1
        /\ status[q] = 200

====
